---- MODULE Spec2Model ----
(***************************************************************************)
(* developer-profile-hub: the in-memory server store (MemStorage), the     *)
(* HTTP routes in front of it, and the client's optimistic project         *)
(* mutations (create / update / delete) with rollback and refetch.         *)
(*                                                                         *)
(* Specifications:                                                         *)
(*   SpecServer   the routes driven by arbitrary requests (store contract) *)
(*   Spec         one client page driving the routes through its mutations *)
(*   FairSpec     Spec with the scheduling the runtime gives               *)
(*   SpecProfile  the same page editing the profile                        *)
(***************************************************************************)
EXTENDS Naturals, Sequences, FiniteSets, TLC

VARIABLES
    projects,   \* MemStorage.projects: a Map, kept as its entries in insertion order
    profile,    \* MemStorage.profile: the singleton
    uuids,      \* number of randomUUID() draws made so far
    issued,     \* history: every id the store has issued (seed and createProject)
    calls,      \* history: number of requests served under SpecServer
    req,        \* history: the last request served
    resp,       \* history: the response to it
    cache,      \* client: query data of ["/api/projects"]
    loaded,     \* client: the query has data (the page renders the project list)
    fetch,      \* client: the fetch of ["/api/projects"], if one is in flight
    muts,       \* client: the mutation invocations, by slot
    now,        \* client: last value read from Date.now()
    seen,       \* client: ids of the cards the page has rendered so far
    profileData,    \* client: query data of ["/api/profile"]
    profileFetch,   \* client: the fetch of ["/api/profile"], if one is in flight
    isEditing,      \* client: the profile form is open
    pmuts,          \* client: the invocations of updateProfileMutation, by slot
    form,           \* client: the profile form's title, skills and bio fields
    isGeneratingBio,\* client: a bio request is under way (the button is disabled)
    bioRequest,     \* client: the POST /api/generate-bio in flight, if any
    bioToast,       \* client: the last notification generateAIBio showed
    dialog,         \* client: the ProjectDialog (open, its form's fields)
    submitted       \* client: the values ProjectDialog last passed to onSubmit

vars == << projects, profile, uuids, issued, calls, req, resp,
           cache, loaded, fetch, muts, now, seen,
           profileData, profileFetch, isEditing, pmuts,
           form, isGeneratingBio, bioRequest, bioToast, dialog, submitted >>

serverVars  == << projects, profile, uuids, issued >>
profileVars == << profileData, profileFetch, isEditing, pmuts >>
formVars    == << form, isGeneratingBio, bioRequest, bioToast, dialog, submitted >>
clientVars  == << cache, loaded, fetch, muts, now, seen, profileVars, formVars >>

----------------------------------------------------------------------------
(* Bounds *)

MaxCalls == 4       \* requests served in a behaviour of SpecServer
MaxMuts  == 2       \* mutation invocations in a behaviour of Spec

----------------------------------------------------------------------------
(* Values *)

\* An optional value (T | undefined): <<>> is undefined, <<x>> is x.
undefined == << >>
Some(x)   == << x >>

Uuid(n)   == << "uuid", n >>
TempId(t) == << "temp", t >>

\* The request bodies that pass insertProjectSchema (title, description, image: strings;
\* tech: array of strings).
InsertProjects ==
    { [title |-> "X", description |-> "dx", image |-> "ix", tech |-> << "React" >>],
      [title |-> "Y", description |-> "dy", image |-> "iy", tech |-> << "Node", "TS" >>] }

\* A body that fails the schema: the same keys, with tech not an array.
BadBody == [title |-> "Z", description |-> "dz", image |-> "iz", tech |-> << >>, malformed |-> TRUE]

Bodies == InsertProjects \cup { BadBody }

SeedProfile ==
    [name |-> "Vaibhav Nagdeo", title |-> "Full Stack Developer", bio |-> "bio0",
     location |-> "Hyderabad, India", email |-> "vaibhavnagdeo@gmail.com",
     website |-> "https://Vaibhav.dev", profilePicture |-> "/profile.jpg",
     skills |-> << "React", "TypeScript", "Node.js" >>,
     socials |-> [github |-> "gh0", linkedin |-> "li0", twitter |-> "tw0"]]

ProfileInputs ==
    { [name |-> "Ann", title |-> "Engineer", bio |-> "bio1",
       location |-> "", email |-> "ann@example.org",
       website |-> "", profilePicture |-> "",
       skills |-> << "Go", "React" >>,
       socials |-> [github |-> "gh1", linkedin |-> "", twitter |-> ""]],
      [name |-> "Bob", title |-> "Designer", bio |-> "bio2",
       location |-> "Oslo", email |-> "bob@example.org",
       website |-> "https://bob.example", profilePicture |-> "data:image/png",
       skills |-> << >>,
       socials |-> [github |-> "", linkedin |-> "li2", twitter |-> "tw2"]] }

\* A PUT /api/profile body that is JSON and not a Profile: most fields are missing.
PartialProfile == [name |-> "Eve", skills |-> << "Rust" >>]

\* req.body of PUT /api/profile: the route takes it as it comes.
ProfileBodies == ProfileInputs \cup { PartialProfile }

\* interface Profile: the value has the fields of a Profile.
IsProfile(p) == DOMAIN p = DOMAIN SeedProfile

Range(s) == { s[i] : i \in 1..Len(s) }
Ids(s)   == { s[i].id : i \in 1..Len(s) }

----------------------------------------------------------------------------
(* Map<string, Project>, as the sequence of its values in insertion order *)

MapHas(m, id) == \E i \in 1..Len(m) : m[i].id = id

MapGet(m, id) == m[CHOOSE i \in 1..Len(m) : m[i].id = id]

\* Map.set: an existing key keeps its position, a new key goes last.
MapSet(m, id, v) ==
    IF MapHas(m, id)
      THEN [i \in 1..Len(m) |-> IF m[i].id = id THEN v ELSE m[i]]
      ELSE Append(m, v)

\* Map.delete: the remaining entries keep their order.
MapDelete(m, id) == SelectSeq(m, LAMBDA p : p.id # id)

----------------------------------------------------------------------------
(* MemStorage *)

\* { ...insertProject, id }
WithId(ins, id) ==
    [id |-> id, title |-> ins.title, description |-> ins.description,
     image |-> ins.image, tech |-> ins.tech]

\* crypto.randomUUID(): a value no earlier draw returned; n draws have been made.
randomUUID(n) == Uuid(n + 1)

seedProjects ==
    << WithId([title |-> "AI Manim Visualizer", description |-> "d1", image |-> "i1",
               tech |-> << "Python", "Manim", "OpenAI API" >>], randomUUID(0)),
       WithId([title |-> "Gesture Builder AI", description |-> "d2", image |-> "i2",
               tech |-> << "React", "Node.js", "Three.js" >>], randomUUID(1)) >>

getProjects == projects

Reverse(s) == [i \in 1..Len(s) |-> s[Len(s) + 1 - i]]

\* The id createProject gives the new record.
SizeBasedId == Uuid(Len(projects) + 1)
createProjectId == randomUUID(uuids)

\* createProject: [projects, ret] after the call.
CreateProjectLosesTech(ins) ==
    LET id      == createProjectId
        project == WithId(ins, id)
    IN  [projects |-> MapSet(projects, id, [project EXCEPT !.tech = << >>]), ret |-> project]
createProject(ins) ==
    LET id      == createProjectId
        project == WithId(ins, id)
    IN  [projects |-> MapSet(projects, id, project), ret |-> project]

\* updateProject: [projects, ret]; ret is undefined when the id is not in the map.
UpsertProject(id, ins) ==
    LET project == WithId(ins, id)
    IN  [projects |-> MapSet(projects, id, project), ret |-> Some(project)]
UpdateKeepsOldImage(id, ins) ==
    IF ~MapHas(projects, id)
      THEN [projects |-> projects, ret |-> undefined]
      ELSE LET old     == MapGet(projects, id)
               project == WithId([ins EXCEPT !.image = old.image], id)
           IN  [projects |-> MapSet(projects, id, project), ret |-> Some(project)]
UpdateAfterStaleCheck(id, ins) ==
    IF id \notin issued
      THEN [projects |-> projects, ret |-> undefined]
      ELSE LET project == WithId(ins, id)
           IN  [projects |-> MapSet(projects, id, project), ret |-> Some(project)]
MergeTechProject(id, ins) ==
    IF ~MapHas(projects, id)
      THEN [projects |-> projects, ret |-> undefined]
      ELSE LET old     == MapGet(projects, id)
               project == WithId([ins EXCEPT !.tech = old.tech \o ins.tech], id)
           IN  [projects |-> MapSet(projects, id, project), ret |-> Some(project)]
updateProject(id, ins) ==
    IF ~MapHas(projects, id)
      THEN [projects |-> projects, ret |-> undefined]
      ELSE LET project == WithId(ins, id)
           IN  [projects |-> MapSet(projects, id, project), ret |-> Some(project)]

\* deleteProject: Map.delete returns whether the key was there.
DeleteFirstProject(id) ==
    [projects |-> IF MapHas(projects, id) THEN Tail(projects) ELSE projects,
     ret |-> MapHas(projects, id)]
deleteProject(id) ==
    [projects |-> MapDelete(projects, id), ret |-> MapHas(projects, id)]

getProfile == profile

\* updateProfile: [profile, ret].
MergeProfile(p) ==
    LET merged == [p EXCEPT !.skills = profile.skills \o p.skills]
    IN  [profile |-> merged, ret |-> merged]
updateProfile(p) == [profile |-> p, ret |-> p]

----------------------------------------------------------------------------
(* registerRoutes: each handler gives the store's next state and the response *)

\* insertProjectSchema.safeParse(req.body).success
safeParse(body) == body \in InsertProjects

Response(status, body, message) == [status |-> status, body |-> body, message |-> message]

\* POST /api/projects
PostProject(body) ==
    IF ~safeParse(body)
      THEN [projects |-> projects, created |-> FALSE,
            resp |-> Response(400, << >>, "error")]
      ELSE LET r == createProject(body)
           IN  [projects |-> r.projects, created |-> TRUE,
                resp |-> Response(200, << r.ret >>, "")]

\* PUT /api/projects/:id
PutProjectAlwaysOk(id, body) ==
    IF ~safeParse(body)
      THEN [projects |-> projects, resp |-> Response(400, << >>, "error")]
      ELSE LET r == updateProject(id, body)
           IN  [projects |-> r.projects, resp |-> Response(200, r.ret, "")]
PutProjectLooksUpFirst(id, body) ==
    IF ~MapHas(projects, id)
      THEN [projects |-> projects, resp |-> Response(404, << >>, "Project not found")]
      ELSE IF ~safeParse(body)
             THEN [projects |-> projects, resp |-> Response(400, << >>, "error")]
             ELSE LET r == updateProject(id, body)
                  IN  [projects |-> r.projects, resp |-> Response(200, r.ret, "")]
PutProject(id, body) ==
    IF ~safeParse(body)
      THEN [projects |-> projects, resp |-> Response(400, << >>, "error")]
      ELSE LET r == updateProject(id, body)
           IN  IF r.ret = undefined
                 THEN [projects |-> r.projects,
                       resp |-> Response(404, << >>, "Project not found")]
                 ELSE [projects |-> r.projects, resp |-> Response(200, r.ret, "")]

\* DELETE /api/projects/:id
DeleteProjectAlwaysOk(id) ==
    [projects |-> deleteProject(id).projects,
     resp |-> Response(200, << >>, "Project deleted successfully")]
DeleteProject(id) ==
    LET r == deleteProject(id)
    IN  IF ~r.ret
          THEN [projects |-> r.projects, resp |-> Response(404, << >>, "Project not found")]
          ELSE [projects |-> r.projects,
                resp |-> Response(200, << >>, "Project deleted successfully")]

\* GET /api/projects
GetProjectsUnstable ==
    Response(200, IF calls % 2 = 0 THEN getProjects ELSE Reverse(getProjects), "")
GetProjects == Response(200, getProjects, "")

----------------------------------------------------------------------------
(* Initial state: the store as constructed, the page mounted and loading *)

\* A mutation invocation: kind and variables, its position, the context onMutate
\* returned (dropped once the mutation has settled), the status of the response in
\* flight, whether the server has performed the write, the toast shown.
Mutation(kind, id, values, pc, previousProjects, status, applied, toast) ==
    [kind |-> kind, id |-> id, values |-> values, pc |-> pc,
     previousProjects |-> previousProjects, status |-> status, applied |-> applied,
     toast |-> toast]

NoValues == [title |-> "", description |-> "", image |-> "", tech |-> << >>]

NoMut == Mutation("none", Uuid(0), NoValues, "idle", << >>, 0, FALSE, "")

\* The fetch of ["/api/projects"]: stage idle / sent / answered, the mutation whose
\* onSettled started it (0: the page's first load), the answer's data, and how the
\* last fetch ended (ok / failed / cancelled).
Fetch(stage, by, data, result) == [stage |-> stage, by |-> by, data |-> data, result |-> result]

\* A served request, as the history keeps it: valid is safeParse of its body, profile the
\* body of a PUT /api/profile, body the body of a POST or PUT of a project, prev the
\* request served before it.
Request(method, path, id, valid, prof, body) ==
    [method |-> method, path |-> path, id |-> id, valid |-> valid, profile |-> prof,
     body |-> body, prev |-> << req.method, req.path >>]

\* An invocation of updateProfileMutation: its position, the values submitted, the
\* response body once the server has answered, the toast shown.
ProfileMutation(pc, values, data, toast) ==
    [pc |-> pc, values |-> values, data |-> data, toast |-> toast]

NoProfileMut == ProfileMutation("idle", << >>, << >>, "")

NoRequest == [method |-> "", path |-> "", id |-> Uuid(0), valid |-> FALSE,
              profile |-> << >>, body |-> << >>, prev |-> << "", "" >>]

Init ==
    /\ projects = seedProjects
    /\ profile = SeedProfile
    /\ uuids = 2
    /\ issued = Ids(seedProjects)
    /\ calls = 0
    /\ req = NoRequest
    /\ resp = Response(0, << >>, "")
    /\ cache = << >>
    /\ loaded = FALSE
    /\ fetch = Fetch("sent", 0, << >>, "")
    /\ muts = [m \in 1..MaxMuts |-> NoMut]
    /\ now = 0
    /\ seen = {}
    /\ profileData = undefined
    /\ profileFetch = Fetch("sent", 0, << >>, "")
    /\ isEditing = FALSE
    /\ pmuts = [m \in 1..MaxMuts |-> NoProfileMut]
    /\ form = [title |-> << >>, skills |-> << >>, bio |-> undefined]
    /\ isGeneratingBio = FALSE
    /\ bioRequest = [stage |-> "idle", body |-> undefined, data |-> undefined]
    /\ bioToast = ""
    /\ dialog = [open |-> FALSE, fields |-> [title |-> "", description |-> "", image |-> ""],
                 tech |-> << >>, invalid |-> FALSE]
    /\ submitted = undefined

----------------------------------------------------------------------------
(* SpecServer: the routes under arbitrary requests *)

\* The ids a request path can carry: issued ones, one never issued, a client temporary id.
PathIds == { Uuid(n) : n \in 1..(uuids + 1) } \cup { TempId(1) }

ServePostProject(body) ==
    /\ calls < MaxCalls
    /\ LET h == PostProject(body)
       IN  /\ projects' = h.projects
           /\ uuids' = IF h.created THEN uuids + 1 ELSE uuids
           /\ issued' = IF h.created THEN issued \cup { h.resp.body[1].id } ELSE issued
           /\ resp' = h.resp
    /\ req' = Request("POST", "/api/projects", Uuid(0), safeParse(body), << >>, << body >>)
    /\ calls' = calls + 1
    /\ UNCHANGED << profile, clientVars >>

ServePutProject(id, body) ==
    /\ calls < MaxCalls
    /\ LET h == PutProject(id, body)
       IN  /\ projects' = h.projects
           /\ resp' = h.resp
    /\ req' = Request("PUT", "/api/projects/:id", id, safeParse(body), << >>, << body >>)
    /\ calls' = calls + 1
    /\ UNCHANGED << profile, uuids, issued, clientVars >>

ServeDeleteProject(id) ==
    /\ calls < MaxCalls
    /\ LET h == DeleteProject(id)
       IN  /\ projects' = h.projects
           /\ resp' = h.resp
    /\ req' = Request("DELETE", "/api/projects/:id", id, FALSE, << >>, << >>)
    /\ calls' = calls + 1
    /\ UNCHANGED << profile, uuids, issued, clientVars >>

ServeGetProjects ==
    /\ calls < MaxCalls
    /\ resp' = GetProjects
    /\ req' = Request("GET", "/api/projects", Uuid(0), FALSE, << >>, << >>)
    /\ calls' = calls + 1
    /\ UNCHANGED << serverVars, clientVars >>

\* GET /api/profile
ServeGetProfile ==
    /\ calls < MaxCalls
    /\ resp' = Response(200, << getProfile >>, "")
    /\ req' = Request("GET", "/api/profile", Uuid(0), FALSE, << >>, << >>)
    /\ calls' = calls + 1
    /\ UNCHANGED << serverVars, clientVars >>

\* PUT /api/profile: the body goes to the store as it is.
ServePutProfile(p) ==
    /\ calls < MaxCalls
    /\ LET r == updateProfile(p)
       IN  /\ profile' = r.profile
           /\ resp' = Response(200, << r.ret >>, "")
    /\ req' = Request("PUT", "/api/profile", Uuid(0), FALSE, << p >>, << >>)
    /\ calls' = calls + 1
    /\ UNCHANGED << projects, uuids, issued, clientVars >>

NextServer ==
    \/ \E body \in Bodies : ServePostProject(body)
    \/ \E id \in PathIds, body \in Bodies : ServePutProject(id, body)
    \/ \E id \in PathIds : ServeDeleteProject(id)
    \/ ServeGetProjects
    \/ ServeGetProfile
    \/ \E p \in ProfileBodies : ServePutProfile(p)

SpecServer == Init /\ [][NextServer]_vars

----------------------------------------------------------------------------
(* The client: useQuery(["/api/projects"]) and the three project mutations *)

Slots == 1..MaxMuts

\* Between onError / onSuccess and onSettled of one mutation only microtasks run: no
\* other callback of the page runs in between.
HandlerRunning == \E m \in Slots : muts[m].pc \in { "rolledback", "committed" }

\* Slots are taken in order.
NextSlot(m) ==
    /\ muts[m].pc = "idle"
    /\ \A k \in Slots : k < m => muts[k].pc # "idle"

\* queryClient.cancelQueries: a fetch in flight is dropped, the data stay as they are.
cancelQueriesLetsFetchRun == fetch
cancelQueries ==
    IF fetch.stage = "idle" THEN fetch ELSE Fetch("idle", fetch.by, << >>, "cancelled")

\* queryClient.invalidateQueries from onSettled of m: the mounted query refetches; a
\* fetch already in flight is replaced.
InvalidateWithoutRefetch(m) == fetch
InvalidateKeepsFetchInFlight(m) ==
    IF fetch.stage = "idle" THEN Fetch("sent", m, << >>, fetch.result)
                            ELSE [fetch EXCEPT !.by = m]
invalidateQueries(m) == Fetch("sent", m, << >>, fetch.result)

\* What the project form submits to each mutation.
CreateInputs == { v \in InsertProjects : v.title = "X" }
UpdateInputs == { v \in InsertProjects : v.title = "Y" }

\* Date.now(): the first reading, or a later one in the same millisecond or a later one.
Readings == IF now = 0 THEN { 1 } ELSE { now, now + 1 }

\* old => [...(old || []), { ...newProject, id: "temp-" + Date.now() }]
OptimisticCreateFirst(old, newProject, t) == << WithId(newProject, TempId(t)) >> \o old
OptimisticCreate(old, newProject, t) == Append(old, WithId(newProject, TempId(t)))

\* old?.map(p => p.id === id ? { ...p, ...values } : p)
OptimisticUpdate(old, id, values) ==
    [i \in 1..Len(old) |-> IF old[i].id = id THEN WithId(values, old[i].id) ELSE old[i]]

\* old?.filter(p => p.id !== id)
OptimisticDeleteOthers(old, id) == SelectSeq(old, LAMBDA p : p.id = id)
OptimisticDelete(old, id) == SelectSeq(old, LAMBDA p : p.id # id)

\* The context onMutate returns: the query data read before the optimistic write.
SnapshotAfterApply(old, new) == new
Snapshot(old, new) == old

\* setQueryData(key, context?.previousProjects) in onError.
KeepOptimistic(m) == cache
RollbackToNewestSnapshot(m) ==
    LET inFlight == { k \in 1..MaxMuts : muts[k].pc \notin { "idle", "settled" } }
        newest   == CHOOSE k \in inFlight : \A j \in inFlight : j <= k
    IN  muts[newest].previousProjects
Rollback(m) == muts[m].previousProjects

\* onMutate, then mutationFn sends the request.
Apply(m, kind, id, values, new) ==
    /\ loaded
    /\ ~HandlerRunning
    /\ NextSlot(m)
    /\ fetch' = cancelQueries
    /\ cache' = new
    /\ seen' = seen \cup Ids(new)
    /\ muts' = [muts EXCEPT ![m] =
                  Mutation(kind, id, values, "pending", Snapshot(cache, new), 0, FALSE, "")]
    /\ UNCHANGED << serverVars, profileVars, formVars, calls, req, resp, loaded >>

\* createProjectMutation.mutate(values)
MutateCreate(m, values, t) ==
    /\ now' = t
    /\ Apply(m, "create", TempId(t), values, OptimisticCreate(cache, values, t))

\* updateProjectMutation.mutate({ id, values })
MutateUpdate(m, id, values) ==
    /\ now' = now
    /\ Apply(m, "update", id, values, OptimisticUpdate(cache, id, values))

\* deleteProjectMutation.mutate(id)
MutateDelete(m, id) ==
    /\ now' = now
    /\ Apply(m, "delete", id, NoValues, OptimisticDelete(cache, id))

\* The route that answers the mutation's request.
Route(m) ==
    CASE muts[m].kind = "create" -> PostProject(muts[m].values)
      [] muts[m].kind = "update" ->
            [created |-> FALSE] @@ PutProject(muts[m].id, muts[m].values)
      [] OTHER ->
            [created |-> FALSE] @@ DeleteProject(muts[m].id)

\* The server handles the request of mutation m.
ServerHandle(m) ==
    /\ muts[m].pc = "pending"
    /\ LET h == Route(m)
       IN  /\ projects' = h.projects
           /\ uuids' = IF h.created THEN uuids + 1 ELSE uuids
           /\ issued' = IF h.created THEN issued \cup { h.resp.body[1].id } ELSE issued
           /\ muts' = [muts EXCEPT ![m].pc = "answered", ![m].status = h.resp.status,
                                   ![m].applied = (h.resp.status = 200)]
    /\ UNCHANGED << profile, profileVars, formVars, calls, req, resp, cache, loaded, fetch, now, seen >>

GenericFailedToast(kind) == "Error"
FailedToast(kind) ==
    CASE kind = "create" -> "Create Failed"
      [] kind = "update" -> "Update Failed"
      [] OTHER           -> "Delete Failed"

SuccessToast(kind) ==
    CASE kind = "create" -> "Project Added"
      [] kind = "update" -> "Project Updated"
      [] OTHER           -> "Project Deleted"

\* onError: restore the snapshot, show the failure toast.
OnErrorResend(m) ==
    /\ ~HandlerRunning
    /\ cache' = Rollback(m)
    /\ muts' = [muts EXCEPT ![m].pc = IF muts[m].pc = "answered" THEN "pending"
                                                                ELSE "rolledback",
                            ![m].toast = FailedToast(muts[m].kind)]
    /\ UNCHANGED << serverVars, profileVars, formVars, calls, req, resp, loaded, fetch, now, seen >>
OnError(m) ==
    /\ ~HandlerRunning
    /\ cache' = Rollback(m)
    /\ muts' = [muts EXCEPT ![m].pc = "rolledback",
                            ![m].toast = FailedToast(muts[m].kind)]
    /\ UNCHANGED << serverVars, profileVars, formVars, calls, req, resp, loaded, fetch, now, seen >>

\* The request never reaches the server: fetch rejects.
RequestLost(m) ==
    /\ muts[m].pc = "pending"
    /\ OnError(m)

\* The server has handled the request and the response does not arrive: fetch rejects.
ResponseLost(m) ==
    /\ muts[m].pc = "answered"
    /\ OnError(m)

\* apiRequest throws on a response that is not ok.
apiRequestThrows(status) == status # 200

\* The response arrives with a status that is not ok.
ResponseNotOkSkipsRollback(m) ==
    /\ muts[m].pc = "answered"
    /\ apiRequestThrows(muts[m].status)
    /\ ~HandlerRunning
    /\ fetch' = invalidateQueries(m)
    /\ muts' = [muts EXCEPT ![m].pc = "settled", ![m].previousProjects = << >>,
                            ![m].status = 0, ![m].toast = FailedToast(muts[m].kind)]
    /\ UNCHANGED << serverVars, profileVars, formVars, calls, req, resp, cache, loaded, now, seen >>
ResponseNotOk(m) ==
    /\ muts[m].pc = "answered"
    /\ apiRequestThrows(muts[m].status)
    /\ OnError(m)

\* The response arrives ok: onSuccess shows the success toast.
ResponseOk(m) ==
    /\ muts[m].pc = "answered"
    /\ ~apiRequestThrows(muts[m].status)
    /\ ~HandlerRunning
    /\ muts' = [muts EXCEPT ![m].pc = "committed", ![m].toast = SuccessToast(muts[m].kind)]
    /\ UNCHANGED << serverVars, profileVars, formVars, calls, req, resp, cache, loaded, fetch, now, seen >>

\* onSettled: invalidate the query, on both paths.
SettleOnlyOnSuccess(m) ==
    IF muts[m].pc = "committed" THEN invalidateQueries(m) ELSE fetch
SettledFetch(m) == invalidateQueries(m)

OnSettledRestores(m) ==
    /\ muts[m].pc \in { "rolledback", "committed" }
    /\ fetch' = SettledFetch(m)
    /\ cache' = muts[m].previousProjects
    /\ muts' = [muts EXCEPT ![m].pc = "settled", ![m].previousProjects = << >>,
                            ![m].status = 0]
    /\ UNCHANGED << serverVars, profileVars, formVars, calls, req, resp, loaded, now, seen >>
OnSettled(m) ==
    /\ muts[m].pc \in { "rolledback", "committed" }
    /\ fetch' = SettledFetch(m)
    /\ muts' = [muts EXCEPT ![m].pc = "settled", ![m].previousProjects = << >>,
                            ![m].status = 0]
    /\ UNCHANGED << serverVars, profileVars, formVars, calls, req, resp, cache, loaded, now, seen >>

\* The server answers the GET /api/projects of the fetch in flight.
FetchServe ==
    /\ fetch.stage = "sent"
    /\ fetch' = Fetch("answered", fetch.by, GetProjects.body, fetch.result)
    /\ UNCHANGED << serverVars, profileVars, formVars, calls, req, resp, cache, loaded, muts, now, seen >>

\* The answer arrives: it becomes the query data.
FetchResolveKeepsTemp ==
    /\ fetch.stage = "answered"
    /\ ~HandlerRunning
    /\ cache' = fetch.data \o SelectSeq(cache, LAMBDA p : p.id[1] = "temp")
    /\ loaded' = TRUE
    /\ seen' = seen \cup Ids(fetch.data)
    /\ fetch' = Fetch("idle", fetch.by, << >>, "ok")
    /\ UNCHANGED << serverVars, profileVars, formVars, calls, req, resp, muts, now >>
FetchResolve ==
    /\ fetch.stage = "answered"
    /\ ~HandlerRunning
    /\ cache' = fetch.data
    /\ loaded' = TRUE
    /\ seen' = seen \cup Ids(fetch.data)
    /\ fetch' = Fetch("idle", fetch.by, << >>, "ok")
    /\ UNCHANGED << serverVars, profileVars, formVars, calls, req, resp, muts, now >>

\* The fetch fails (request or answer lost): the query keeps the data it had.
FetchFail ==
    /\ fetch.stage \in { "sent", "answered" }
    /\ ~HandlerRunning
    /\ fetch' = Fetch("idle", fetch.by, << >>, "failed")
    /\ UNCHANGED << serverVars, profileVars, formVars, calls, req, resp, cache, loaded, muts, now, seen >>

Next ==
    \/ \E m \in Slots, values \in CreateInputs, t \in Readings : MutateCreate(m, values, t)
    \/ \E m \in Slots, id \in seen, values \in UpdateInputs : MutateUpdate(m, id, values)
    \/ \E m \in Slots, id \in seen : MutateDelete(m, id)
    \/ \E m \in Slots : ServerHandle(m)
    \/ \E m \in Slots : RequestLost(m)
    \/ \E m \in Slots : ResponseLost(m)
    \/ \E m \in Slots : ResponseNotOk(m)
    \/ \E m \in Slots : ResponseOk(m)
    \/ \E m \in Slots : OnSettled(m)
    \/ FetchServe
    \/ FetchResolve
    \/ FetchFail

Spec == Init /\ [][Next]_vars

\* The scheduling the runtime gives: a request in flight is answered or fails, a
\* response that arrives is handled, and onSettled follows onError / onSuccess.
Fairness ==
    /\ \A m \in Slots : WF_vars(ServerHandle(m) \/ RequestLost(m))
    /\ \A m \in Slots : WF_vars(ResponseOk(m) \/ ResponseNotOk(m) \/ ResponseLost(m))
    /\ \A m \in Slots : WF_vars(OnSettled(m))
    /\ WF_vars(FetchServe)
    /\ WF_vars(FetchResolve)

FairSpec == Spec /\ Fairness

----------------------------------------------------------------------------
(* The page editing projects only, with every payload the form can submit *)

NextUpdates ==
    \/ \E m \in Slots, id \in seen, values \in InsertProjects : MutateUpdate(m, id, values)
    \/ \E m \in Slots : ServerHandle(m)
    \/ \E m \in Slots : RequestLost(m)
    \/ \E m \in Slots : ResponseLost(m)
    \/ \E m \in Slots : ResponseOk(m)
    \/ \E m \in Slots : OnSettled(m)
    \/ FetchServe
    \/ FetchResolve
    \/ FetchFail

SpecUpdates == Init /\ [][NextUpdates]_vars

----------------------------------------------------------------------------
(* The client: useQuery(["/api/profile"]) and updateProfileMutation *)

\* The page shows its content once both queries have data.
Rendered == loaded /\ profileData # undefined

NextProfileSlot(m) ==
    /\ pmuts[m].pc = "idle"
    /\ \A k \in Slots : k < m => pmuts[k].pc # "idle"

\* The server answers the GET /api/profile of the fetch in flight.
ProfileFetchServe ==
    /\ profileFetch.stage = "sent"
    /\ profileFetch' = Fetch("answered", 0, << getProfile >>, profileFetch.result)
    /\ UNCHANGED << serverVars, formVars, calls, req, resp, cache, loaded, fetch, muts, now, seen,
                    profileData, isEditing, pmuts >>

\* The answer arrives: it becomes the query data.
ProfileFetchResolve ==
    /\ profileFetch.stage = "answered"
    /\ profileData' = profileFetch.data
    /\ profileFetch' = Fetch("idle", 0, << >>, "ok")
    /\ UNCHANGED << serverVars, formVars, calls, req, resp, cache, loaded, fetch, muts, now, seen,
                    isEditing, pmuts >>

\* The fetch fails: the query keeps the data it had.
ProfileFetchFail ==
    /\ profileFetch.stage \in { "sent", "answered" }
    /\ profileFetch' = Fetch("idle", 0, << >>, "failed")
    /\ UNCHANGED << serverVars, formVars, calls, req, resp, cache, loaded, fetch, muts, now, seen,
                    profileData, isEditing, pmuts >>

\* The Edit Profile button.
StartEditing ==
    /\ Rendered
    /\ ~isEditing
    /\ isEditing' = TRUE
    /\ UNCHANGED << serverVars, formVars, calls, req, resp, cache, loaded, fetch, muts, now, seen,
                    profileData, profileFetch, pmuts >>

\* The Cancel and close buttons of the form.
CancelEditing ==
    /\ Rendered
    /\ isEditing
    /\ isEditing' = FALSE
    /\ UNCHANGED << serverVars, formVars, calls, req, resp, cache, loaded, fetch, muts, now, seen,
                    profileData, profileFetch, pmuts >>

\* onSubmit: updateProfileMutation.mutate(formattedValues); the mutation has no
\* onMutate, mutationFn sends the request.
SubmitProfile(m, formattedValues) ==
    /\ Rendered
    /\ isEditing
    /\ NextProfileSlot(m)
    /\ pmuts' = [pmuts EXCEPT ![m] = ProfileMutation("pending", formattedValues, << >>, "")]
    /\ UNCHANGED << serverVars, formVars, calls, req, resp, cache, loaded, fetch, muts, now, seen,
                    profileData, profileFetch, isEditing >>

\* The server handles the PUT /api/profile of invocation m.
ProfileServerHandle(m) ==
    /\ pmuts[m].pc = "pending"
    /\ LET r == updateProfile(pmuts[m].values)
       IN  /\ profile' = r.profile
           /\ pmuts' = [pmuts EXCEPT ![m].pc = "answered", ![m].data = << r.ret >>]
    /\ UNCHANGED << projects, uuids, issued, formVars, calls, req, resp, cache, loaded,
                    fetch, muts,
                    now, seen, profileData, profileFetch, isEditing >>

\* The mutation has no onError and no onSettled: a rejected mutationFn only ends the
\* invocation.
ProfileOnError(m) ==
    /\ pmuts' = [pmuts EXCEPT ![m].pc = "error"]
    /\ UNCHANGED << serverVars, formVars, calls, req, resp, cache, loaded, fetch, muts, now, seen,
                    profileData, profileFetch, isEditing >>

\* The request never reaches the server: fetch rejects.
ProfileRequestLost(m) ==
    /\ pmuts[m].pc = "pending"
    /\ ProfileOnError(m)

\* The server has handled the request and the response does not arrive: fetch rejects.
ProfileResponseLost(m) ==
    /\ pmuts[m].pc = "answered"
    /\ ProfileOnError(m)

\* The response arrives: onSuccess sets the query data, closes the form, shows the toast.
ProfileResponseOk(m) ==
    /\ pmuts[m].pc = "answered"
    /\ profileData' = pmuts[m].data
    /\ isEditing' = FALSE
    /\ pmuts' = [pmuts EXCEPT ![m].pc = "success", ![m].toast = "Profile Updated"]
    /\ UNCHANGED << serverVars, formVars, calls, req, resp, cache, loaded, fetch, muts, now, seen,
                    profileFetch >>

NextProfile ==
    \/ FetchServe
    \/ FetchResolve
    \/ FetchFail
    \/ ProfileFetchServe
    \/ ProfileFetchResolve
    \/ ProfileFetchFail
    \/ StartEditing
    \/ CancelEditing
    \/ \E m \in Slots, p \in ProfileInputs : SubmitProfile(m, p)
    \/ \E m \in Slots : ProfileServerHandle(m)
    \/ \E m \in Slots : ProfileRequestLost(m)
    \/ \E m \in Slots : ProfileResponseLost(m)
    \/ \E m \in Slots : ProfileResponseOk(m)

SpecProfile == Init /\ [][NextProfile]_vars

----------------------------------------------------------------------------
(* The text fields: the bio generator's inputs and the project dialog *)

MaxLen == 3         \* characters typed in the skills field and in the tech field

\* A typed string is the sequence of its characters.
Chars   == { "a", ",", " " }
Strings == UNION { [1..n -> Chars] : n \in 0..MaxLen }

\* What the title field holds: nothing, a word, a blank.
Titles == { << >>, << "a" >>, << " " >> }

\* String.prototype.split(","): the pieces between the commas, empty ones included.
RECURSIVE split(_)
split(s) ==
    IF s = << >> THEN << << >> >>
    ELSE LET r == split(Tail(s))
         IN  IF Head(s) = "," THEN << << >> >> \o r
                              ELSE << << Head(s) >> \o Head(r) >> \o Tail(r)

\* String.prototype.trim(): the white space at both ends goes.
RECURSIVE trimStart(_)
trimStart(s) == IF s # << >> /\ Head(s) = " " THEN trimStart(Tail(s)) ELSE s

RECURSIVE trimEnd(_)
trimEnd(s) ==
    IF s # << >> /\ s[Len(s)] = " " THEN trimEnd(SubSeq(s, 1, Len(s) - 1)) ELSE s

trim(s) == trimEnd(trimStart(s))

\* Array.prototype.filter(Boolean) on strings: the empty ones go.
filterBoolean(l) == SelectSeq(l, LAMBDA x : x # << >>)

\* Array.prototype.join(", ")
RECURSIVE join(_)
join(l) ==
    IF l = << >> THEN << >>
    ELSE IF Len(l) = 1 THEN l[1]
    ELSE l[1] \o << ",", " " >> \o join(Tail(l))

\* s.split(",").map(s => s.trim()).filter(Boolean)
ParseList(s) == filterBoolean([i \in 1..Len(split(s)) |-> trim(split(s)[i])])

\* The POST /api/generate-bio of generateAIBio: nothing in flight, sent, or answered.
BioRequest(stage, body, data) == [stage |-> stage, body |-> body, data |-> data]

NoBioRequest == BioRequest("idle", undefined, undefined)

\* POST /api/generate-bio: the template, filled with the title and the joined skills.
GenerateBio(body) == [title |-> body.title, skills |-> join(body.skills)]

\* The user edits the title field of the profile form.
SetTitle(s) ==
    /\ form.title # s
    /\ form' = [form EXCEPT !.title = s]
    /\ UNCHANGED << serverVars, calls, req, resp, cache, loaded, fetch, muts, now, seen,
                    profileVars, isGeneratingBio, bioRequest, bioToast, dialog, submitted >>

\* The user edits the skills field of the profile form.
SetSkills(s) ==
    /\ form.skills # s
    /\ form' = [form EXCEPT !.skills = s]
    /\ UNCHANGED << serverVars, calls, req, resp, cache, loaded, fetch, muts, now, seen,
                    profileVars, isGeneratingBio, bioRequest, bioToast, dialog, submitted >>

\* generateAIBio, up to the await: the guard on the two fields, then the request.
MissingInformation == form.skills = << >> \/ form.title = << >>

generateAIBio ==
    /\ ~isGeneratingBio
    /\ IF MissingInformation
         THEN /\ bioToast' = "Missing Information"
              /\ UNCHANGED << isGeneratingBio, bioRequest >>
         ELSE /\ isGeneratingBio' = TRUE
              /\ bioRequest' = BioRequest("sent",
                                   Some([skills |-> ParseList(form.skills),
                                         title |-> form.title]),
                                   undefined)
              /\ UNCHANGED bioToast
    /\ UNCHANGED << serverVars, calls, req, resp, cache, loaded, fetch, muts, now, seen,
                    profileVars, form, dialog, submitted >>

\* The server answers the request in flight.
BioServe ==
    /\ bioRequest.stage = "sent"
    /\ bioRequest' = BioRequest("answered", bioRequest.body,
                                Some(GenerateBio(bioRequest.body[1])))
    /\ UNCHANGED << serverVars, calls, req, resp, cache, loaded, fetch, muts, now, seen,
                    profileVars, form, isGeneratingBio, bioToast, dialog, submitted >>

\* generateAIBio after the await: the bio goes into the form.
BioResolve ==
    /\ bioRequest.stage = "answered"
    /\ form' = [form EXCEPT !.bio = bioRequest.data]
    /\ bioToast' = "Bio Generated"
    /\ isGeneratingBio' = FALSE
    /\ bioRequest' = NoBioRequest
    /\ UNCHANGED << serverVars, calls, req, resp, cache, loaded, fetch, muts, now, seen,
                    profileVars, dialog, submitted >>

\* generateAIBio's catch: the request or its answer was lost.
BioFail ==
    /\ bioRequest.stage \in { "sent", "answered" }
    /\ bioToast' = "Error"
    /\ isGeneratingBio' = FALSE
    /\ bioRequest' = NoBioRequest
    /\ UNCHANGED << serverVars, calls, req, resp, cache, loaded, fetch, muts, now, seen,
                    profileVars, form, dialog, submitted >>

NextBio ==
    \/ \E s \in Titles : SetTitle(s)
    \/ \E s \in Strings : SetSkills(s)
    \/ generateAIBio
    \/ BioServe
    \/ BioResolve
    \/ BioFail

SpecBio == Init /\ [][NextBio]_vars

\* The title, description and image fields of the project dialog: as they open in the
\* create dialog, and filled with values the schema accepts.
NoFields == [title |-> "", description |-> "", image |-> ""]
Fields(p) == [title |-> p.title, description |-> p.description, image |-> p.image]
DialogFields == { NoFields } \cup { Fields(p) : p \in InsertProjects }

\* projectFormSchema: projectSchema's title, description and image, and tech as a
\* string of at least one character.
projectFormSchema(v) == v.fields \in { Fields(p) : p \in InsertProjects } /\ Len(v.tech) >= 1

\* The dialog's trigger: setOpen(true).
OpenDialog ==
    /\ ~dialog.open
    /\ dialog' = [dialog EXCEPT !.open = TRUE]
    /\ UNCHANGED << serverVars, calls, req, resp, cache, loaded, fetch, muts, now, seen,
                    profileVars, form, isGeneratingBio, bioRequest, bioToast, submitted >>

\* The dialog is dismissed: setOpen(false); the form keeps its values.
CloseDialog ==
    /\ dialog.open
    /\ dialog' = [dialog EXCEPT !.open = FALSE]
    /\ UNCHANGED << serverVars, calls, req, resp, cache, loaded, fetch, muts, now, seen,
                    profileVars, form, isGeneratingBio, bioRequest, bioToast, submitted >>

\* The user edits the tech field.
SetTech(s) ==
    /\ dialog.open
    /\ dialog.tech # s
    /\ dialog' = [dialog EXCEPT !.tech = s]
    /\ UNCHANGED << serverVars, calls, req, resp, cache, loaded, fetch, muts, now, seen,
                    profileVars, form, isGeneratingBio, bioRequest, bioToast, submitted >>

\* The user edits the title, description and image fields.
SetFields(f) ==
    /\ dialog.open
    /\ dialog.fields # f
    /\ dialog' = [dialog EXCEPT !.fields = f]
    /\ UNCHANGED << serverVars, calls, req, resp, cache, loaded, fetch, muts, now, seen,
                    profileVars, form, isGeneratingBio, bioRequest, bioToast, submitted >>

\* form.handleSubmit(onFormSubmit): the resolver first; onFormSubmit only for values
\* that pass, and it hands the parsed tech list to onSubmit and closes the dialog.
onFormSubmit ==
    /\ dialog.open
    /\ IF projectFormSchema(dialog)
         THEN /\ submitted' = Some([title |-> dialog.fields.title,
                                    description |-> dialog.fields.description,
                                    image |-> dialog.fields.image,
                                    tech |-> ParseList(dialog.tech)])
              /\ dialog' = [dialog EXCEPT !.open = FALSE, !.invalid = FALSE]
         ELSE /\ dialog' = [dialog EXCEPT !.invalid = TRUE]
              /\ UNCHANGED submitted
    /\ UNCHANGED << serverVars, calls, req, resp, cache, loaded, fetch, muts, now, seen,
                    profileVars, form, isGeneratingBio, bioRequest, bioToast >>

NextDialog ==
    \/ OpenDialog
    \/ CloseDialog
    \/ \E s \in Strings : SetTech(s)
    \/ \E f \in DialogFields : SetFields(f)
    \/ onFormSubmit

SpecDialog == Init /\ [][NextDialog]_vars

----------------------------------------------------------------------------
(* Claims about the store and its routes, checked under SpecServer *)

DistinctIds(s) == \A i, j \in 1..Len(s) : i # j => s[i].id # s[j].id

\* The fields of a project record are the submitted ones.
HasFields(p, values) ==
    /\ p.title = values.title
    /\ p.description = values.description
    /\ p.image = values.image
    /\ p.tech = values.tech

\* The step serves a request of this method and path.
Served(method, path) ==
    /\ calls' = calls + 1
    /\ req'.method = method
    /\ req'.path = path

\* C1: the id a successful createProject returns is none of the ids issued before it
\* (seed ids, ids of deleted records included), and the ids in the collection are
\* pairwise distinct in every reachable state.
C1_CreateIdsAreFresh ==
    /\ DistinctIds(projects)
    /\ [][ /\ DistinctIds(projects')
           /\ (Served("POST", "/api/projects") /\ resp'.status = 200)
                => /\ resp'.body[1].id \notin issued
                   /\ resp'.body[1].id \notin Ids(projects)
                   /\ MapHas(projects', resp'.body[1].id) ]_vars

\* C1 witness: a create has been served after a record was deleted.
C1_Witness ==
    /\ req.method = "POST"
    /\ resp.status = 200
    /\ \E id \in issued : ~MapHas(projects, id)
    /\ Len(projects) >= 2

\* C2: PUT /api/projects/:id with a body that parses and an id that is not in the
\* collection answers 404 and leaves the collection exactly as it was.
C2_UpdateUnknownIsNotFound ==
    [][ (Served("PUT", "/api/projects/:id") /\ req'.valid /\ ~MapHas(projects, req'.id))
          => /\ resp'.status = 404
             /\ resp'.body = undefined
             /\ projects' = projects ]_vars

\* C2 witness: such a PUT has been served while the collection held records.
C2_Witness ==
    /\ req.method = "PUT"
    /\ req.valid
    /\ ~MapHas(projects, req.id)
    /\ resp.status = 404
    /\ Len(projects) >= 1

\* C3: DELETE of an id that is not in the collection answers 404 and changes nothing;
\* DELETE of an id that is in it answers 200 and removes that record and no other,
\* the others keeping their content and order.
C3_DeleteRemovesExactlyThatRecord ==
    [][ Served("DELETE", "/api/projects/:id")
          => IF MapHas(projects, req'.id)
               THEN /\ resp'.status = 200
                    /\ Len(projects') = Len(projects) - 1
                    /\ ~MapHas(projects', req'.id)
                    /\ \A i \in 1..Len(projects) :
                          projects[i].id # req'.id =>
                            \E j \in 1..Len(projects') :
                               /\ projects'[j] = projects[i]
                               /\ j = i - (IF \E k \in 1..i : projects[k].id = req'.id
                                             THEN 1 ELSE 0)
               ELSE /\ resp'.status = 404
                    /\ projects' = projects ]_vars

\* C3 witness: a DELETE of a record that was not the first has been served, another
\* record remaining.
C3_Witness ==
    /\ req.method = "DELETE"
    /\ resp.status = 200
    /\ req.id # Uuid(1)
    /\ MapHas(projects, Uuid(1))

\* C3 second witness state: a DELETE of an unknown id has been answered 404.
C3_WitnessUnknown ==
    /\ req.method = "DELETE"
    /\ resp.status = 404
    /\ Len(projects) = 2

\* C10: PUT /api/profile stores its body p as the profile and answers p; the project
\* collection is unchanged and no skill of the old profile that p lacks remains; a
\* GET /api/profile served next answers exactly p.
C10_UpdateProfileOverwrites ==
    [][ /\ Served("PUT", "/api/profile")
           => /\ profile' = req'.profile[1]
              /\ resp'.body = req'.profile
              /\ \A s \in Range(profile.skills) \ Range(req'.profile[1].skills) :
                    s \notin Range(profile'.skills)
              /\ projects' = projects
        /\ (Served("GET", "/api/profile") /\ req.method = "PUT" /\ req.path = "/api/profile")
           => /\ resp'.body = req.profile
              /\ profile' = profile ]_vars

\* C10 witness: a GET has been served right after a PUT that dropped a seed skill.
C10_Witness ==
    /\ req.method = "GET"
    /\ req.path = "/api/profile"
    /\ req.prev = << "PUT", "/api/profile" >>
    /\ "TypeScript" \notin Range(profile.skills)
    /\ resp.body = << profile >>

\* C11: in every reachable state of the server, whatever bodies the GET and PUT
\* /api/profile requests served so far carried, the store holds one profile, it is not
\* undefined, and it is a Profile record.
C11_ProfileAlwaysExists ==
    /\ profile # undefined
    /\ IsProfile(profile)

\* C12: a GET of /api/projects or of /api/profile leaves the store as it is and answers
\* the store's collection (in its order) or its profile; a GET served right after a GET
\* of the same path gets the same answer.
C12_ReadsDoNotChangeState ==
    [][ \A path \in { "/api/projects", "/api/profile" } :
          /\ Served("GET", path)
                => /\ serverVars' = serverVars
                   /\ resp'.status = 200
                   /\ resp'.body = IF path = "/api/projects" THEN projects ELSE << profile >>
          /\ (Served("GET", path) /\ req.method = "GET" /\ req.path = path)
                => resp' = resp ]_vars

\* C12 witness: two GETs of /api/projects in a row have been served after writes had
\* changed the collection, and the answer lists the records in the store's order.
C12_Witness ==
    /\ req.method = "GET"
    /\ req.path = "/api/projects"
    /\ req.prev = << "GET", "/api/projects" >>
    /\ projects # seedProjects
    /\ Len(projects) >= 2
    /\ resp.body = projects

\* C13: PUT /api/projects/:id with a body that parses and an id that is in the
\* collection answers 200 with the record it stored: the record has that id and the
\* four fields of the body and nothing else, it stays at its place, and every other
\* record and the number of records are as before.
C13_UpdateReplacesInFull ==
    [][ (Served("PUT", "/api/projects/:id") /\ req'.valid /\ MapHas(projects, req'.id))
          => /\ resp'.status = 200
             /\ resp'.body = << MapGet(projects', req'.id) >>
             /\ resp'.body[1] = WithId(req'.body[1], req'.id)
             /\ HasFields(MapGet(projects', req'.id), req'.body[1])
             /\ Len(projects') = Len(projects)
             /\ \A i \in 1..Len(projects) :
                   /\ projects'[i].id = projects[i].id
                   /\ projects[i].id # req'.id => projects'[i] = projects[i] ]_vars

\* C13 witness: the first seed record has been updated; it is still first, it has the
\* fields of the body (a shorter tech list among them), and the second record is as seeded.
C13_Witness ==
    /\ req.method = "PUT"
    /\ req.valid
    /\ resp.status = 200
    /\ req.id = Uuid(1)
    /\ Len(projects) = 2
    /\ projects[1] = WithId(req.body[1], Uuid(1))
    /\ Len(projects[1].tech) = 1
    /\ projects[2] = seedProjects[2]

\* C14: POST /api/projects with a body that parses answers 200 with the record it
\* stored: the collection holds one record more, the new record is the last, it has the
\* returned id and the four fields of the body, and the records that were there are
\* unchanged and in their order.
C14_CreateAddsExactlyOne ==
    [][ (Served("POST", "/api/projects") /\ req'.valid)
          => /\ resp'.status = 200
             /\ Len(projects') = Len(projects) + 1
             /\ SubSeq(projects', 1, Len(projects)) = projects
             /\ projects'[Len(projects')] = resp'.body[1]
             /\ resp'.body[1] = WithId(req'.body[1], resp'.body[1].id)
             /\ HasFields(projects'[Len(projects')], req'.body[1])
             /\ Cardinality({ i \in 1..Len(projects') : projects'[i].id = resp'.body[1].id }) = 1
        ]_vars

\* C14 witness: a create has been served on the seeded collection: three records, the
\* two seed records first and unchanged, the returned record last.
C14_Witness ==
    /\ req.method = "POST"
    /\ resp.status = 200
    /\ Len(projects) = 3
    /\ SubSeq(projects, 1, 2) = seedProjects
    /\ projects[3] = resp.body[1]
    /\ HasFields(projects[3], req.body[1])

\* C21: a POST /api/projects or PUT /api/projects/:id whose body fails the schema
\* answers 400 and leaves the collection and the id generator as they were; a PUT
\* decides the validation first, so it answers 400 for an invalid body whether the id is
\* known or not, and 404 exactly for a valid body with an unknown id.
C21_InvalidBodyIsRejected ==
    [][ /\ (Served("POST", "/api/projects") /\ ~req'.valid)
              => /\ resp'.status = 400
                 /\ projects' = projects
                 /\ uuids' = uuids
        /\ (Served("PUT", "/api/projects/:id") /\ ~req'.valid)
              => /\ resp'.status = 400
                 /\ projects' = projects
        /\ Served("PUT", "/api/projects/:id")
              => /\ (resp'.status = 404) <=> (req'.valid /\ ~MapHas(projects, req'.id))
                 /\ (resp'.status = 400) <=> ~req'.valid
        /\ Served("POST", "/api/projects")
              => (resp'.status = 400) <=> ~req'.valid ]_vars

\* C21 witness: a PUT with an invalid body and an id that is not in the collection has
\* been answered 400.
C21_Witness ==
    /\ req.method = "PUT"
    /\ ~req.valid
    /\ req.body = << BadBody >>
    /\ ~MapHas(projects, req.id)
    /\ resp.status = 400
    /\ Len(projects) >= 1

\* C30: a project that has been deleted is not brought back by an update: every request
\* is served as one step, so an update of an id finds the record or does not; once a
\* DELETE of an id has answered 200, the id stays out of the collection, and every later
\* PUT of it is answered 404 (400 for an invalid body) and stores nothing.
C30_DeletedStaysDeleted ==
    [][ /\ \A id \in issued : ~MapHas(projects, id) => ~MapHas(projects', id)
        /\ (Served("DELETE", "/api/projects/:id") /\ resp'.status = 200)
              => /\ MapHas(projects, req'.id)
                 /\ ~MapHas(projects', req'.id)
        /\ (Served("PUT", "/api/projects/:id") /\ ~MapHas(projects, req'.id))
              => /\ resp'.status = IF req'.valid THEN 404 ELSE 400
                 /\ projects' = projects ]_vars

\* C30 witness: a PUT with a valid body for an id that a DELETE has just removed was
\* answered 404, and the record is not in the collection.
C30_Witness ==
    /\ req.method = "PUT" /\ req.valid
    /\ req.prev = << "DELETE", "/api/projects/:id" >>
    /\ req.id \in issued
    /\ ~MapHas(projects, req.id)
    /\ resp.status = 404
    /\ Len(projects) = 1

----------------------------------------------------------------------------
(* Claims about the client's mutations, checked under Spec, FairSpec and SpecProfile *)

InFlight(m)  == muts[m].pc \notin { "idle", "settled" }
Failed(m)    == muts[m].toast \in { "Create Failed", "Update Failed", "Delete Failed" }
Succeeded(m) == muts[m].toast \in { "Project Added", "Project Updated", "Project Deleted" }

IsTemp(id)   == id[1] = "temp"
HasTemp(s)   == \E i \in 1..Len(s) : IsTemp(s[i].id)

\* No mutation is between its onMutate and its onSettled, and the last fetch of the
\* project list has resolved.
Quiet ==
    /\ \A k \in Slots : ~InFlight(k)
    /\ fetch.stage = "idle"
    /\ fetch.result = "ok"

\* m is the only mutation invoked so far.
OnlyMutation(m) == \A k \in Slots : k # m => muts[k].pc = "idle"

\* The steps of mutation m.
ApplyStep(m)    == muts[m].pc = "idle" /\ muts'[m].pc = "pending"
HandleStep(m)   == muts[m].pc = "pending" /\ muts'[m].pc = "answered"
RollbackStep(m) == muts[m].pc \in { "pending", "answered" } /\ muts'[m].pc = "rolledback"
CommitStep(m)   == muts[m].pc = "answered" /\ muts'[m].pc = "committed"
SettleStep(m)   == muts[m].pc \in { "rolledback", "committed" } /\ muts'[m].pc = "settled"
ResolveStep     == fetch.stage = "answered" /\ fetch'.stage = "idle" /\ fetch'.result = "ok"

C5_RollbackRestoresOwnSnapshot ==
    [][ \A m \in Slots :
          /\ ApplyStep(m) => muts'[m].previousProjects = cache
          /\ (InFlight(m) /\ ~SettleStep(m))
                => muts'[m].previousProjects = muts[m].previousProjects
          /\ RollbackStep(m) => cache' = muts[m].previousProjects ]_vars

\* C5 witness: a mutation has just rolled back while a later mutation's optimistic
\* write was in the cache, and the cache is its snapshot again.
C5_Witness ==
    \E m, k \in Slots :
        /\ m < k
        /\ muts[m].pc = "rolledback"
        /\ muts[k].pc \in { "pending", "answered" }
        /\ cache = muts[m].previousProjects
        /\ muts[k].previousProjects # muts[m].previousProjects

\* C6: every mutation issued reaches Settled; the step that settles it starts a fetch of
\* /api/projects on the success path and on the failure path; the server answers that
\* fetch with its collection, and the answer, when it arrives, becomes the cache.
C6_SettleAlwaysRefetches ==
    /\ \A m \in Slots : (muts[m].pc = "pending") ~> (muts[m].pc = "settled")
    /\ [][ /\ \A m \in Slots :
                SettleStep(m) => (fetch'.stage = "sent" /\ fetch'.by = m)
           /\ (fetch.stage = "sent" /\ fetch'.stage = "answered")
                => fetch'.data = projects
           /\ ResolveStep => cache' = fetch.data ]_vars

\* C6 witness: a failed update whose write the server had performed has settled and its
\* own refetch has replaced the rolled-back cache by the server's collection.
C6_Witness ==
    \E m \in Slots :
        /\ muts[m].kind = "update"
        /\ muts[m].pc = "settled"
        /\ Failed(m)
        /\ muts[m].applied
        /\ fetch.stage = "idle" /\ fetch.result = "ok" /\ fetch.by = m
        /\ cache = projects
        /\ \E i \in 1..Len(cache) : cache[i].title = "Y"

\* C7: a create on a cache of n records leaves, right after its optimistic write, the n
\* records unchanged and in order followed by one record with the submitted fields and
\* a temporary id; the success path of the mutation does not write the cache; the
\* server stores the record under an id of its own; and once the mutation has settled
\* and the refetch has resolved (no other mutation invoked), the cache holds n + 1
\* records, the new one under the server's id, and no temporary id.
C7_CreateFlow ==
    [][ \A m \in Slots :
          /\ (ApplyStep(m) /\ muts'[m].kind = "create")
                => /\ Len(cache') = Len(cache) + 1
                   /\ SubSeq(cache', 1, Len(cache)) = cache
                   /\ HasFields(cache'[Len(cache')], muts'[m].values)
                   /\ IsTemp(cache'[Len(cache')].id)
          /\ (muts[m].kind = "create" /\ (CommitStep(m) \/ SettleStep(m) \/ HandleStep(m)))
                => cache' = cache
          /\ (muts[m].kind = "create" /\ HandleStep(m))
                => /\ muts'[m].status = 200
                   /\ Len(projects') = Len(projects) + 1
                   /\ HasFields(projects'[Len(projects')], muts[m].values)
                   /\ ~IsTemp(projects'[Len(projects')].id)
          /\ (muts[m].kind = "create" /\ Succeeded(m) /\ muts[m].pc = "settled"
                /\ OnlyMutation(m) /\ ResolveStep)
                => /\ Len(cache') = Len(seedProjects) + 1
                   /\ SubSeq(cache', 1, Len(seedProjects)) = seedProjects
                   /\ HasFields(cache'[Len(cache')], muts[m].values)
                   /\ ~HasTemp(cache')
                   /\ cache' = projects ]_vars

\* C7 witness: the only mutation so far, a create, has succeeded and settled, the
\* refetch has resolved, and the cache holds three records, the third under a server id.
C7_Witness ==
    \E m \in Slots :
        /\ muts[m].kind = "create"
        /\ Succeeded(m)
        /\ muts[m].pc = "settled"
        /\ OnlyMutation(m)
        /\ Quiet
        /\ Len(cache) = 3
        /\ cache[3].id = Uuid(3)

\* The others keep their content and order when the record with this id is taken out.
RemovedExactly(old, new, id) ==
    /\ ~MapHas(new, id)
    /\ Len(new) = Len(old) - Cardinality({ i \in 1..Len(old) : old[i].id = id })
    /\ \A i \in 1..Len(old) :
          old[i].id # id =>
             new[i - Cardinality({ k \in 1..i : old[k].id = id })] = old[i]

\* C8 as stated: after a delete that failed in transport has settled and the refetch has
\* resolved, the cache contains the record again and the server collection never changed.
C8_AsStated ==
    \A m \in Slots :
        (muts[m].kind = "delete" /\ OnlyMutation(m) /\ muts[m].pc = "settled"
           /\ Failed(m) /\ Quiet)
          => /\ MapHas(cache, muts[m].id)
             /\ projects = seedProjects

\* C8 (amended): right after the optimistic write of a delete the cache lacks the record
\* with that id and holds every other record unchanged; the rollback puts the record
\* back; once the mutation has settled and the refetch has resolved (no other mutation
\* invoked) the cache is the server's collection, which holds the record and is
\* unchanged exactly when the server never handled the request.
C8_DeleteFlowTransportFailure ==
    [][ \A m \in Slots :
          /\ (ApplyStep(m) /\ muts'[m].kind = "delete")
                => RemovedExactly(cache, cache', muts'[m].id)
          /\ (muts[m].kind = "delete" /\ RollbackStep(m)
                /\ MapHas(muts[m].previousProjects, muts[m].id))
                => MapHas(cache', muts[m].id)
          /\ (muts[m].kind = "delete" /\ OnlyMutation(m) /\ muts[m].pc = "settled"
                /\ Failed(m) /\ ResolveStep)
                => /\ cache' = projects
                   /\ MapHas(cache', muts[m].id) <=> ~muts[m].applied
                   /\ ~muts[m].applied <=> (projects = seedProjects) ]_vars

\* C8 witness: the only mutation so far, a delete whose request never reached the
\* server, has settled and the refetch has resolved: the cache holds both records again.
C8_Witness ==
    \E m \in Slots :
        /\ muts[m].kind = "delete"
        /\ OnlyMutation(m)
        /\ muts[m].pc = "settled"
        /\ Failed(m)
        /\ ~muts[m].applied
        /\ Quiet
        /\ cache = seedProjects
        /\ MapHas(cache, muts[m].id)

\* C9: an update whose id is in neither the cache nor the server's collection leaves
\* the cache as it is at its optimistic write; the server answers it 404 and stores
\* nothing; a 404 takes the mutation to its rollback, never to its commit; and neither
\* the rollback nor the refetch after it (no mutation being in flight) puts a record
\* with that id in the cache.
C9_UpdateUnknownId ==
    [][ \A m \in Slots :
          /\ (ApplyStep(m) /\ muts'[m].kind = "update" /\ ~MapHas(cache, muts'[m].id))
                => /\ cache' = cache
                   /\ ~MapHas(muts'[m].previousProjects, muts'[m].id)
          /\ (muts[m].kind = "update" /\ HandleStep(m) /\ ~MapHas(projects, muts[m].id))
                => /\ muts'[m].status = 404
                   /\ projects' = projects
          /\ (muts[m].kind = "update" /\ muts[m].pc = "answered" /\ muts[m].status = 404
                /\ muts'[m].pc # "answered")
                => /\ muts'[m].pc = "rolledback"
                   /\ muts'[m].toast = "Update Failed"
          /\ (muts[m].kind = "update" /\ RollbackStep(m)
                /\ ~MapHas(muts[m].previousProjects, muts[m].id))
                => ~MapHas(cache', muts[m].id)
          /\ (muts[m].kind = "update" /\ muts[m].pc = "settled" /\ Failed(m)
                /\ ~MapHas(projects, muts[m].id) /\ ResolveStep
                /\ \A k \in Slots : ~InFlight(k))
                => ~MapHas(cache', muts[m].id) ]_vars

\* C9 witness: an update of an id that neither the cache nor the server holds has been
\* answered 404 and rolled back, and the cache has no record with that id.
C9_Witness ==
    \E m \in Slots :
        /\ muts[m].kind = "update"
        /\ muts[m].pc = "rolledback"
        /\ muts[m].status = 404
        /\ ~MapHas(muts[m].previousProjects, muts[m].id)
        /\ ~MapHas(cache, muts[m].id)
        /\ ~MapHas(projects, muts[m].id)

\* The transport call of a project mutation / of a profile update has failed.
WriteFailed(m)        == muts[m].pc \in { "rolledback", "settled" } /\ ~Succeeded(m)
ProfileWriteFailed(m) == pmuts[m].pc = "error"

\* C15: every project create, update or delete and every profile update whose transport
\* call has failed has shown a failure notification, and the page still shows its
\* content.
C15_EveryFailedWriteNotifies ==
    /\ \A m \in Slots : WriteFailed(m) => (Failed(m) /\ loaded)
    /\ \A m \in Slots : ProfileWriteFailed(m) => (pmuts[m].toast # "" /\ Rendered)

\* C16: a project mutation shows no notification before its remote write has ended and
\* exactly one afterwards, which is never replaced: the success notification when the
\* response arrived ok (the server then has performed the write), the failure
\* notification of its own operation (Create Failed, Update Failed, Delete Failed) when
\* the request or the response was lost or the status was not ok.
C16_ExactlyOneOutcomeNotification ==
    [][ \A m \in Slots :
          /\ (muts'[m].toast # muts[m].toast)
                => /\ muts[m].toast = ""
                   /\ RollbackStep(m) \/ CommitStep(m)
          /\ CommitStep(m)
                => /\ muts[m].status = 200
                   /\ muts[m].applied
                   /\ muts'[m].toast = CASE muts[m].kind = "create" -> "Project Added"
                                          [] muts[m].kind = "update" -> "Project Updated"
                                          [] muts[m].kind = "delete" -> "Project Deleted"
          /\ RollbackStep(m)
                => muts'[m].toast = CASE muts[m].kind = "create" -> "Create Failed"
                                      [] muts[m].kind = "update" -> "Update Failed"
                                      [] muts[m].kind = "delete" -> "Delete Failed"
          /\ (muts[m].pc = "answered" /\ muts[m].status # 200 /\ muts'[m].pc # "answered")
                => RollbackStep(m)
          /\ (muts'[m].pc \in { "rolledback", "committed", "settled" })
                <=> (muts'[m].toast # "")
          /\ (muts'[m].pc = "settled")
                => (Failed(m) \/ Succeeded(m)) /\ ~(Failed(m) /\ Succeeded(m)) ]_vars

\* C16 witness: a delete whose request was lost and a create that succeeded have both
\* settled, each with the notification of its own outcome.
C16_Witness ==
    \E m, k \in Slots :
        /\ muts[m].kind = "delete" /\ muts[m].pc = "settled"
        /\ muts[m].toast = "Delete Failed" /\ ~muts[m].applied
        /\ muts[k].kind = "create" /\ muts[k].pc = "settled"
        /\ muts[k].toast = "Project Added" /\ muts[k].applied

\* The request of a mutation is sent when the mutation is applied and never again, and
\* the server's collection changes only when the server handles a request in flight.
OneRemoteWrite(m) ==
    /\ (muts[m].pc \notin { "idle", "pending" }) => muts'[m].pc # "pending"
    /\ HandleStep(m) => muts[m].toast = ""
    /\ (muts'[m].applied # muts[m].applied) => (HandleStep(m) /\ muts'[m].applied)
    /\ (projects' # projects) => \E k \in Slots : HandleStep(k) /\ muts'[k].applied

\* C17 as stated: one remote write per invocation, none after a failure; a create that
\* failed has produced no server record, and an update or delete that failed does not
\* change the server's collection afterwards.
C17_AsStated ==
    [][ \A m \in Slots :
          /\ OneRemoteWrite(m)
          /\ (muts'[m].kind = "create" /\ muts'[m].toast = "Create Failed")
                => ~muts'[m].applied
          /\ (muts[m].kind \in { "update", "delete" } /\ Failed(m))
                => ~HandleStep(m) ]_vars

\* C17 (amended): one remote write per invocation, none after a failure: the server
\* handles the request at most once, before the failure is reported, and no step of a
\* failed mutation changes the server's collection afterwards. A failed create has
\* produced no server record when its request was lost, and exactly one, not more, when
\* its response was lost.
C17_OneRemoteWrite ==
    [][ \A m \in Slots :
          /\ OneRemoteWrite(m)
          /\ (muts[m].kind = "create" /\ HandleStep(m))
                => Len(projects') = Len(projects) + 1
          /\ Failed(m) => ~HandleStep(m)
          /\ (muts'[m].kind = "create" /\ muts'[m].toast = "Create Failed"
                /\ OnlyMutation(m))
                => IF muts'[m].applied
                     THEN /\ Len(projects') = Len(seedProjects) + 1
                          /\ SubSeq(projects', 1, Len(seedProjects)) = seedProjects
                          /\ HasFields(projects'[Len(projects')], muts'[m].values)
                     ELSE projects' = seedProjects ]_vars

\* C17 witness: the only mutation so far, a create whose response was lost, has settled
\* and its refetch has resolved: the server holds one record for it.
C17_Witness ==
    \E m \in Slots :
        /\ muts[m].kind = "create"
        /\ OnlyMutation(m)
        /\ muts[m].pc = "settled"
        /\ muts[m].toast = "Create Failed"
        /\ muts[m].applied
        /\ Len(projects) = Len(seedProjects) + 1
        /\ fetch.stage = "idle"

\* Updates m and k of one id with different fields.
RacingUpdates(m, k) ==
    /\ m # k
    /\ muts[m].kind = "update" /\ muts[k].kind = "update"
    /\ muts[m].id = muts[k].id
    /\ muts[m].values # muts[k].values

\* C18: the server handles the requests of concurrent updates one at a time and each one
\* it handles replaces the record in full by that update's fields, so when two updates
\* of one id have both been applied the record equals the fields of the one the server
\* handled last, never a mix; nothing else changes the record, and the client starts
\* the second update while the first is in flight.
C18_LastRemoteWriteWins ==
    [][ /\ \A m \in Slots :
              (muts[m].kind = "update" /\ HandleStep(m))
                 => /\ muts'[m].status = 200
                    /\ MapGet(projects', muts[m].id) = WithId(muts[m].values, muts[m].id)
                    /\ \A i \in 1..Len(projects) :
                          projects[i].id # muts[m].id => projects'[i] = projects[i]
                    /\ \A k \in Slots : k # m => muts'[k] = muts[k]
        /\ (projects' # projects) => \E m \in Slots : HandleStep(m)
        /\ \A m, k \in Slots :
              (RacingUpdates(m, k) /\ muts[m].applied /\ HandleStep(k))
                 => /\ MapGet(projects', muts[k].id) = WithId(muts[k].values, muts[k].id)
                    /\ MapGet(projects', muts[k].id) # WithId(muts[m].values, muts[m].id)
        /\ \A i \in 1..Len(projects') :
              \/ projects'[i] = seedProjects[i]
              \/ \E m \in Slots :
                    /\ muts'[m].applied
                    /\ projects'[i] = WithId(muts'[m].values, muts'[m].id) ]_vars

\* C18 witness: two updates of one id with different fields were in flight together and
\* both succeeded; the server record has the fields of the one invoked first, whose
\* request the server handled last.
C18_Witness ==
    \E m, k \in Slots :
        /\ m < k
        /\ RacingUpdates(m, k)
        /\ muts[m].pc = "settled" /\ muts[k].pc = "settled"
        /\ Succeeded(m) /\ Succeeded(k)
        /\ MapGet(projects, muts[m].id) = WithId(muts[m].values, muts[m].id)

\* C19: the cache is written only by a mutation's optimistic apply, by its rollback and
\* by a refetch that resolves, and a refetch that resolves replaces it by the refetch's
\* result; apply and rollback belong to a mutation that has not settled yet, the next
\* step of the page after a rollback is that mutation's settle, which starts a new
\* refetch, and a settled mutation does nothing more. So once the racing mutations have settled and the refetch has
\* resolved, the cache is that refetch's result until a new mutation is applied.
C19_LastRefetchWins ==
    [][ /\ (cache' # cache)
              => \/ ResolveStep
                 \/ \E m \in Slots : ApplyStep(m) \/ RollbackStep(m)
        /\ ResolveStep => (cache' = fetch.data /\ fetch'.stage = "idle")
        /\ \A m \in Slots :
              /\ (muts[m].pc = "rolledback")
                    => /\ cache' = cache
                       /\ ~ResolveStep
                       /\ \A k \in Slots : ~ApplyStep(k) /\ ~RollbackStep(k)
                       /\ (muts'[m] # muts[m]) => SettleStep(m)
              /\ SettleStep(m) => (fetch'.stage = "sent" /\ fetch'.by = m)
              /\ (muts[m].pc = "settled") => (muts'[m] = muts[m])
              /\ SettleStep(m) => cache' = cache
        /\ ((\A k \in Slots : muts[k].pc \in { "idle", "settled" }) /\ cache' # cache)
              => \/ ResolveStep
                 \/ \E m \in Slots : muts[m].pc = "idle" /\ ApplyStep(m) ]_vars

\* C19 witness: two mutations that were in flight together have settled, the one invoked
\* first last, one of them failed, and the refetch of that last settle has resolved.
C19_Witness ==
    /\ MaxMuts >= 2
    /\ muts[1].pc = "settled" /\ muts[2].pc = "settled"
    /\ Failed(2) /\ Succeeded(1)
    /\ fetch.by = 1 /\ fetch.stage = "idle" /\ fetch.result = "ok"
    /\ cache = projects
    /\ cache # seedProjects

\* The cache differs from the server's collection in the way mutation m changed it: the
\* record a create added under its temporary id, the fields an update wrote, the
\* absence of the record a delete removed.
DiffersBecauseOf(m) ==
    CASE muts[m].kind = "create" -> MapHas(cache, muts[m].id)
      [] muts[m].kind = "update" ->
            /\ MapHas(cache, muts[m].id)
            /\ MapGet(cache, muts[m].id) = WithId(muts[m].values, muts[m].id)
            /\ ~(MapHas(projects, muts[m].id)
                   /\ MapGet(projects, muts[m].id) = MapGet(cache, muts[m].id))
      [] muts[m].kind = "delete" ->
            /\ ~MapHas(cache, muts[m].id)
            /\ MapHas(projects, muts[m].id)
      [] OTHER -> FALSE

\* The refetch that the settle of m started is the last fetch, and it has resolved; no
\* other mutation is about the record of m.
OwnRefetchResolved(m) ==
    /\ muts[m].pc = "settled"
    /\ \A k \in Slots : (k # m /\ muts[k].pc # "idle") => muts[k].id # muts[m].id
    /\ fetch.by = m
    /\ fetch.stage = "idle"
    /\ fetch.result = "ok"

\* C20 as stated: once the refetch started by a mutation's own settle has resolved, the
\* cache does not differ from the server's collection because of that mutation, also
\* when other mutations are in flight.
C20_AsStated ==
    \A m \in Slots : OwnRefetchResolved(m) => ~DiffersBecauseOf(m)

\* C20 (amended): once the refetch started by a mutation's own settle has resolved and
\* no other mutation is in flight, the cache is the server's collection; and whatever
\* raced, once no mutation is in flight and the refetch started by the last settle has
\* resolved, the cache differs from the server's collection because of no mutation.
C20_InconsistencyEndsWithRefetch ==
    /\ \A m \in Slots :
          (OwnRefetchResolved(m) /\ \A k \in Slots : ~InFlight(k))
             => (~DiffersBecauseOf(m) /\ cache = projects)
    /\ Quiet => (cache = projects /\ \A m \in Slots : ~DiffersBecauseOf(m))

\* C20 witness: a delete and a create raced, the delete was performed by the server
\* although it failed on the client, both have settled and the last refetch has
\* resolved: the cache is the server's collection again.
C20_Witness ==
    \E m, k \in Slots :
        /\ muts[m].kind = "delete" /\ Failed(m) /\ muts[m].applied
        /\ muts[k].kind = "create" /\ Succeeded(k)
        /\ OwnRefetchResolved(m)
        /\ muts[k].pc = "settled"
        /\ cache = projects
        /\ ~MapHas(cache, muts[m].id)

----------------------------------------------------------------------------
(* Claims about the text fields, checked under SpecBio and SpecDialog *)

\* A step of generateAIBio: no request was under way and the form is as it was.
GenerateStep == bioRequest.stage = "idle" /\ form' = form

\* C22: the bio generator is never asked with an empty title or an empty skills list:
\* whatever the title and skills fields hold, generateAIBio either sends nothing and
\* shows 'Missing Information', or sends a request whose title is not empty and whose
\* skills list has at least one skill, none of them empty.
C22_NeverAsksWithEmptyInputs ==
    [][ GenerateStep =>
          \/ /\ bioRequest' = bioRequest
             /\ bioToast' = "Missing Information"
          \/ /\ bioRequest'.stage = "sent"
             /\ bioRequest'.body[1].title # << >>
             /\ bioRequest'.body[1].skills # << >>
             /\ \A i \in 1..Len(bioRequest'.body[1].skills) :
                    bioRequest'.body[1].skills[i] # << >> ]_vars

\* C23: whatever the tech field holds, the values the project dialog hands to the create
\* or update mutation have at least one tech item.
C23_SubmittedTechNotEmpty ==
    submitted # undefined => submitted[1].tech # << >>

----------------------------------------------------------------------------
(* Claims about mutations in flight together, checked under Spec and SpecServer *)

\* C24: every mutation in flight has a snapshot of its own: it is the cache as it was
\* when that mutation was applied; no step of another mutation (its optimistic write,
\* its rollback, its settling) and no step of a refetch changes it; and a rollback puts
\* back the snapshot of the mutation that failed, not the one of another mutation in
\* flight.
C24_SnapshotsAreIndependent ==
    [][ \A m \in Slots :
          /\ ApplyStep(m)
                => /\ muts'[m].previousProjects = cache
                   /\ \A k \in Slots \ { m } : muts'[k] = muts[k]
          /\ \A k \in Slots \ { m } :
                (InFlight(m) /\ (ApplyStep(k) \/ RollbackStep(k) \/ SettleStep(k)))
                   => muts'[m] = muts[m]
          /\ (InFlight(m) /\ fetch' # fetch /\ \A k \in Slots : muts'[k].pc = muts[k].pc)
                => muts'[m].previousProjects = muts[m].previousProjects
          /\ RollbackStep(m)
                => /\ cache' = muts[m].previousProjects
                   /\ \A k \in Slots \ { m } :
                         (InFlight(k) /\ muts[k].previousProjects # muts[m].previousProjects)
                            => cache' # muts[k].previousProjects ]_vars

\* C24 witness: the later of two mutations in flight has just rolled back: the cache is
\* its snapshot, which holds the earlier mutation's optimistic write and so differs from
\* the earlier mutation's snapshot, which is as it was taken.
C24_Witness ==
    \E k, m \in Slots :
        /\ k < m
        /\ muts[m].pc = "rolledback"
        /\ muts[k].pc \in { "pending", "answered" }
        /\ cache = muts[m].previousProjects
        /\ cache # muts[k].previousProjects
        /\ muts[k].previousProjects = seedProjects

\* The order of a mutation's positions: idle (Idle), pending and answered (Pending: the
\* request is on its way, the response is on its way), committed or rolledback, settled.
\* The step from idle to pending is the Applying stage: onMutate snapshots and writes
\* the cache, then mutationFn sends.
StepOrder ==
    { << "idle", "pending" >>, << "pending", "answered" >>,
      << "pending", "rolledback" >>, << "answered", "rolledback" >>,
      << "answered", "committed" >>,
      << "rolledback", "settled" >>, << "committed", "settled" >> }

\* C25: a mutation moves only along Idle, Applying, Pending, Committed or RolledBack,
\* Settled, one step at a time and never back; the step that applies it takes the
\* snapshot and leaves the server untouched, and the server changes only by handling the
\* request of a mutation that has been applied; the rollback does not start the
\* refetch, which starts with the settling step that follows it, on both paths.
C25_StepsInOrder ==
    [][ /\ \A m \in Slots :
             /\ muts'[m].pc # muts[m].pc => << muts[m].pc, muts'[m].pc >> \in StepOrder
             /\ ApplyStep(m)
                   => /\ muts'[m].previousProjects = cache
                      /\ projects' = projects
                      /\ ~muts'[m].applied /\ muts'[m].status = 0
             /\ HandleStep(m) => cache' = cache
             /\ RollbackStep(m)
                   => /\ fetch' = fetch
                      /\ cache' = muts[m].previousProjects
                      /\ Failed(m)'
             /\ CommitStep(m) => (fetch' = fetch /\ cache' = cache /\ Succeeded(m)')
             /\ SettleStep(m)
                   => /\ fetch'.stage = "sent" /\ fetch'.by = m
                      /\ cache' = cache
                      /\ Failed(m) <=> muts[m].pc = "rolledback"
             /\ (fetch'.by = m /\ fetch.by # m) => SettleStep(m)
        /\ projects' # projects => \E m \in Slots : HandleStep(m) ]_vars

\* C25 witness: one mutation has gone through RolledBack to Settled and another through
\* Committed to Settled.
C25_Witness ==
    \E m, k \in Slots :
        /\ muts[m].pc = "settled" /\ Failed(m)
        /\ muts[k].pc = "settled" /\ Succeeded(k)
        /\ fetch.by = k /\ fetch.stage = "sent"

\* No mutation is in flight, at least one has settled, and the refetch that the last
\* settling started has resolved with the server's answer.
LastRefetchResolved ==
    /\ \A k \in Slots : ~InFlight(k)
    /\ \E k \in Slots : muts[k].pc = "settled" /\ fetch.by = k
    /\ fetch.stage = "idle"
    /\ fetch.result = "ok"

\* C26: whenever no mutation is in flight and the refetch of the last settling has
\* resolved, the cache is the server's collection, whatever creates, updates and deletes
\* ran together and however each ended: it holds no temporary id and no record, put back
\* by a rollback, that the server does not hold.
C26_QuiescentCacheIsServerCollection ==
    LastRefetchResolved
      => /\ cache = projects
         /\ \A i \in 1..Len(cache) : ~IsTemp(cache[i].id) /\ MapHas(projects, cache[i].id)

\* C26 witness: a create that failed after the server had stored the record and a delete
\* that succeeded have both settled, the delete having been applied while the create was
\* in flight, and the last refetch has resolved.
C26_Witness ==
    \E m, k \in Slots :
        /\ m < k
        /\ muts[m].kind = "create" /\ Failed(m) /\ muts[m].applied
        /\ muts[k].kind = "delete" /\ Succeeded(k)
        /\ fetch.by = m
        /\ LastRefetchResolved
        /\ Len(cache) = 2 /\ cache[2].id = Uuid(3)

\* C27: in every reachable state the ids of the records in the cache are pairwise
\* distinct, also while several optimistic creates are in flight, each under a temporary
\* id made of the clock value read when it was applied.
C27_CacheIdsPairwiseDistinct ==
    \A i, j \in 1..Len(cache) : i # j => cache[i].id # cache[j].id

\* C28: the step that applies a mutation first cancels a fetch of /api/projects in
\* flight, whatever its stage, and then snapshots and writes: right after it no fetch is
\* in flight, so an answer that was asked for before the optimistic write never becomes
\* the cache; a fetch that resolves while a mutation is in flight was started by the
\* settling of another mutation, after that write.
C28_FetchInFlightIsCancelled ==
    [][ \A m \in Slots :
          /\ ApplyStep(m)
                => /\ fetch'.stage = "idle"
                   /\ fetch.stage # "idle" => fetch'.result = "cancelled"
                   /\ fetch.stage = "idle" => fetch' = fetch
                   /\ muts'[m].previousProjects = cache
          /\ (ResolveStep /\ InFlight(m))
                => /\ fetch.by \in Slots \ { m }
                   /\ muts[fetch.by].pc = "settled" ]_vars

\* C28 witness: a create has just been applied while the answer to an earlier
\* mutation's refetch was on its way: the fetch is cancelled and the cache holds the
\* optimistic record.
C28_Witness ==
    \E m \in Slots :
        /\ muts[m].kind = "create" /\ muts[m].pc = "pending"
        /\ fetch.stage = "idle" /\ fetch.result = "cancelled"
        /\ fetch.by \in Slots \ { m }
        /\ cache = Append(muts[m].previousProjects, cache[Len(cache)])
        /\ IsTemp(cache[Len(cache)].id)

\* Mutation m is an update or a delete of a record under a temporary id.
AgainstTemp(m) == muts[m].kind \in { "update", "delete" } /\ IsTemp(muts[m].id)

\* C29: the server's collection never holds a record under a temporary id; the server
\* answers an update or a delete of a record whose id is still temporary with 404 and
\* stays as it is, and the mutation then takes the rollback path: its next step
\* restores its snapshot and shows the failure toast.
C29_TempIdsStayOnTheClient ==
    [][ /\ ~HasTemp(projects) /\ ~HasTemp(projects')
        /\ \A m \in Slots :
             /\ (AgainstTemp(m) /\ HandleStep(m))
                   => /\ muts'[m].status = 404
                      /\ ~muts'[m].applied
                      /\ projects' = projects /\ uuids' = uuids
             /\ (AgainstTemp(m) /\ muts[m].pc \in { "pending", "answered" }
                   /\ muts'[m].pc \notin { "pending", "answered" })
                   => /\ RollbackStep(m)
                      /\ cache' = muts[m].previousProjects
                      /\ Failed(m)' ]_vars

\* C29 witness: an update of the optimistic record of a create still in flight has been
\* answered 404 and has rolled back.
C29_Witness ==
    \E k, m \in Slots :
        /\ muts[k].kind = "create" /\ muts[k].pc \in { "pending", "answered" }
        /\ muts[m].kind = "update" /\ muts[m].id = muts[k].id
        /\ muts[m].pc = "rolledback"
        /\ muts[m].status = 404
        /\ muts[m].toast = "Update Failed"
        /\ MapHas(cache, muts[k].id)

====
